---------------------------- MODULE Spec2Model ----------------------------
(***************************************************************************)
(* Model of the DynamoDB Local test fixture (package dynamodblocal).       *)
(*                                                                         *)
(* The package's own code is RunContainer, ConnectionString,               *)
(* GetDynamoDBClient, the options WithSharedDB and WithTelemetryDisabled   *)
(* (dynamodb.go) and DynamoDBLocalResolver.ResolveEndpoint                 *)
(* (dynamodb_local_endpoint_resolver.go).  Everything it calls - the       *)
(* container runtime behind testcontainers.GenericContainer and the        *)
(* embedded testcontainers.Container, the DynamoDB Local process in the    *)
(* image, the AWS SDK client - is modelled as far as the package's call    *)
(* sites and its integration tests (dynamodb_test.go) exercise it.         *)
(***************************************************************************)
EXTENDS Integers, Sequences, FiniteSets, TLC

\* ------------------------------------------------------------------ bounds
\* Containers the runtime creates in one behaviour.
MaxContainers == 2
\* Options passed to one RunContainer call.
MaxOpts == 6
\* Ephemeral host ports the runtime maps the exposed port to.
MaxPorts == 2
\* Client instances the caller keeps at a time.
MaxClients == 1

\* --------------------------------------------------------------- constants
\* dynamodb.go:22-24
image == "amazon/dynamodb-local:2.2.1"
port == "8000/tcp"
containerName == "dynamodb_local"

\* dynamodb_test.go:15, :45
tableName == "demo_table"
testValue == "test_value"

Nil == 0
NilErr == "nil"
Ids == 1..MaxContainers
Ports == 1..MaxPorts
hostIP == "localhost"

Options == {"WithSharedDB", "WithTelemetryDisabled"}
OptSeqs == UNION {[1..n -> Options] : n \in 0..MaxOpts}
\* The launch configurations the container life cycle is explored with, those
\* of the integration tests (dynamodb_test.go:22, :79, :181, :196).
LaunchOpts == {<<>>, <<"WithSharedDB">>, <<"WithTelemetryDisabled">>,
               <<"WithSharedDB", "WithTelemetryDisabled">>}

ErrCanceled == "context canceled"
ErrStartup == "failed to start container"
ErrNameConflict == "container name already in use"
ErrPortNotFound == "port not found"
ErrNoSuchContainer == "no such container"
ErrHost == "host lookup failed"
ErrConfig == "failed to load default config"
ErrMissingRegion == "endpoint resolution failed: missing region"
ErrConnRefused == "connection refused"
ErrTableExists == "ResourceInUseException"
ErrNoTable == "ResourceNotFoundException"

VARIABLES
    docker,     \* the container runtime: id -> container
    nextId,     \* the id the runtime gives the next container it creates
    handles,    \* the *DynamodbLocalContainer values the caller holds
    clients,    \* the *dynamodb.Client values the caller holds
    last        \* what the last call returned

vars == <<docker, nextId, handles, clients, last>>

\* ------------------------------------------------------ launch configuration
\* The base request with Started left false.
BaseRequestNotStarted ==
    [image |-> image, exposedPorts |-> <<port>>, waitingFor |-> port,
     started |-> FALSE, cmd |-> <<>>, name |-> "", reuse |-> FALSE]

\* RunContainer's base request (dynamodb.go:29-38).
BaseRequest ==
    [image |-> image, exposedPorts |-> <<port>>, waitingFor |-> port,
     started |-> TRUE, cmd |-> <<>>, name |-> "", reuse |-> FALSE]

\* WithSharedDB leaving the command list alone.
WithSharedDBNoCmd(req) ==
    [req EXCEPT !.name = containerName, !.reuse = TRUE]

\* WithSharedDB assigning the command list instead of appending to it.
WithSharedDBOverwrites(req) ==
    [req EXCEPT !.cmd = <<"-jar", "DynamoDBLocal.jar", "-sharedDb">>,
                !.name = containerName, !.reuse = TRUE]

\* WithSharedDB setting neither the name nor the reuse flag.
WithSharedDBNoReuse(req) ==
    [req EXCEPT !.cmd = IF Len(req.cmd) > 0
                        THEN Append(req.cmd, "-sharedDb")
                        ELSE req.cmd \o <<"-jar", "DynamoDBLocal.jar", "-sharedDb">>]

\* WithSharedDB (dynamodb.go:90-101).
WithSharedDB(req) ==
    [req EXCEPT !.cmd = IF Len(req.cmd) > 0
                        THEN Append(req.cmd, "-sharedDb")
                        ELSE req.cmd \o <<"-jar", "DynamoDBLocal.jar", "-sharedDb">>,
                !.name = containerName,
                !.reuse = TRUE]

\* WithTelemetryDisabled without the test for flags already set.
WithTelemetryDisabledAlwaysBase(req) ==
    [req EXCEPT !.cmd = req.cmd \o <<"-jar", "DynamoDBLocal.jar", "-disableTelemetry">>]

\* WithTelemetryDisabled (dynamodb.go:104-114).
WithTelemetryDisabled(req) ==
    [req EXCEPT !.cmd = IF Len(req.cmd) > 0
                        THEN Append(req.cmd, "-disableTelemetry")
                        ELSE req.cmd \o <<"-jar", "DynamoDBLocal.jar", "-disableTelemetry">>]

\* opt.Customize(&genericContainerReq) for one option (dynamodb.go:41).
Customize(opt, req) ==
    IF opt = "WithSharedDB" THEN WithSharedDB(req) ELSE WithTelemetryDisabled(req)

\* for _, opt := range opts { opt.Customize(&genericContainerReq) }
\* (dynamodb.go:40-42).
RECURSIVE ApplyOpts(_, _)
ApplyOpts(opts, req) ==
    IF opts = <<>> THEN req
    ELSE ApplyOpts(Tail(opts), Customize(Head(opts), req))


\* ------------------------------------------------------- container runtime
\* A container the runtime does not hold.
NoContainer ==
    [status |-> "absent", name |-> "", cmd |-> <<>>, waitingFor |-> "none",
     ready |-> FALSE, hostPort |-> 0, table |-> FALSE, items |-> {}]

Live == {"created", "running", "exited"}

Range(s) == {s[i] : i \in DOMAIN s}

\* Whether the DynamoDB Local process started with command cmd keeps its
\* data in memory only.  An empty Cmd leaves the image's default command in
\* place, which runs the emulator in memory (TestIntegrationWithoutSharedDB:
\* no option, no table after a restart); a non-empty Cmd replaces the
\* default command, and the emulator then writes a database file in the
\* container's file system unless the flag -inMemory is passed.
InMemory(cmd) == cmd = <<>> \/ "-inMemory" \in Range(cmd)

\* Host ports taken by running containers.
UsedPorts(d) == {d[i].hostPort : i \in {j \in Ids : d[j].status = "running"}}

\* The runtime starts the process of container c on host port p and, as
\* Container.Start does, returns once the wait strategy has passed.
StartContainer(c, p) ==
    [c EXCEPT !.status = "running", !.hostPort = p,
              !.ready = (c.waitingFor = port)]

\* The process of container c exits: memory is lost, files are kept.
StopContainer(c) ==
    [c EXCEPT !.status = "exited", !.hostPort = 0, !.ready = FALSE,
              !.table = IF InMemory(c.cmd) THEN FALSE ELSE c.table,
              !.items = IF InMemory(c.cmd) THEN {} ELSE c.items]

\* Containers req.Name names.
Named(d, req) == {i \in Ids : d[i].status \in Live /\ req.name # "" /\ d[i].name = req.name}

\* Whether GenericContainer(ctx, req) asks the runtime for a new container.
Creates(d, ctxDone, req, envOK) ==
    /\ ~ctxDone
    /\ envOK
    /\ Named(d, req) = {}
    /\ ~(req.reuse /\ req.name = "")

\* Whether GenericContainer(ctx, req) starts a process, which takes a free
\* host port.
Starts(d, ctxDone, req, envOK) ==
    /\ ~ctxDone
    /\ envOK
    /\ req.started
    /\ ~(req.reuse /\ req.name = "")
    /\ \A i \in Named(d, req) : req.reuse /\ d[i].status # "running"

\* testcontainers.GenericContainer(ctx, req) (called at dynamodb.go:46):
\* fails on a cancelled context and on a pull, run or readiness failure;
\* with Reuse it returns the container that has req.Name when there is one;
\* otherwise it creates a container; with Started it starts a container that
\* is not running and waits for req.WaitingFor.
GenericContainer(d, id, ctxDone, req, envOK, p) ==
    IF ctxDone THEN
        [docker |-> d, nextId |-> id, container |-> Nil, err |-> ErrCanceled, reused |-> FALSE]
    ELSE IF ~envOK THEN
        [docker |-> d, nextId |-> id, container |-> Nil, err |-> ErrStartup, reused |-> FALSE]
    ELSE IF req.reuse /\ req.name = "" THEN
        [docker |-> d, nextId |-> id, container |-> Nil, err |-> ErrStartup, reused |-> FALSE]
    ELSE IF Named(d, req) # {} THEN
        IF req.reuse THEN
            LET c == CHOOSE i \in Named(d, req) : TRUE
                found == [d[c] EXCEPT !.waitingFor = req.waitingFor]
            IN  [docker |-> [d EXCEPT ![c] =
                               IF req.started /\ found.status # "running"
                               THEN StartContainer(found, p) ELSE found],
                 nextId |-> id, container |-> c, err |-> NilErr, reused |-> TRUE]
        ELSE
            [docker |-> d, nextId |-> id, container |-> Nil, err |-> ErrNameConflict, reused |-> FALSE]
    ELSE
        LET created == [NoContainer EXCEPT !.status = "created", !.name = req.name,
                                           !.cmd = req.cmd, !.waitingFor = req.waitingFor]
        IN  [docker |-> [d EXCEPT ![id] =
                           IF req.started THEN StartContainer(created, p) ELSE created],
             nextId |-> id + 1, container |-> id, err |-> NilErr, reused |-> FALSE]

\* ------------------------------------------------------------ RunContainer
\* What RunContainer returns for GenericContainer's (container, err)
\* (dynamodb.go:46-51).
RunContainerReturn(container, err) ==
    IF err # NilErr THEN [handle |-> Nil, err |-> err]
    ELSE [handle |-> container, err |-> NilErr]

NoClient == [hasResolver |-> FALSE, hostAndPort |-> <<"nil">>]

Result(op, ctxDone, handle, client, arg, value, err) ==
    [op |-> op, ctxDone |-> ctxDone, handle |-> handle, client |-> client,
     arg |-> arg, value |-> value, err |-> err]

\* RunContainer(ctx, opts...) (dynamodb.go:28-52).
RunContainer(ctxDone, opts, envOK, p) ==
    LET req == ApplyOpts(opts, BaseRequest)
        out == GenericContainer(docker, nextId, ctxDone, req, envOK, p)
        res == RunContainerReturn(out.container, out.err)
    IN  /\ Creates(docker, ctxDone, req, envOK) => nextId <= MaxContainers
        /\ ctxDone => envOK
        /\ IF Starts(docker, ctxDone, req, envOK)
           THEN p \notin UsedPorts(docker)
           ELSE p = 1
        /\ docker' = out.docker
        /\ nextId' = out.nextId
        /\ handles' = IF res.handle # Nil THEN handles \cup {res.handle} ELSE handles
        /\ last' = Result("RunContainer", ctxDone, res.handle, NoClient,
                          [opts |-> opts, reused |-> out.reused], req, res.err)
        /\ UNCHANGED clients

\* --------------------------------------- testcontainers.Container methods
\* container.Stop(ctx, timeout) (dynamodb_test.go:103, :160).
Stop(h) ==
    /\ h \in handles
    /\ LET err == IF docker[h].status \notin Live THEN ErrNoSuchContainer
                  ELSE NilErr
       IN  /\ docker' = IF err = NilErr /\ docker[h].status = "running"
                        THEN [docker EXCEPT ![h] = StopContainer(docker[h])]
                        ELSE docker
           /\ last' = Result("Stop", FALSE, h, NoClient, <<>>, <<>>, err)
    /\ UNCHANGED <<nextId, handles, clients>>

\* container.Start(ctx) (dynamodb_test.go:107, :164).
Start(h, p) ==
    /\ h \in handles
    /\ IF docker[h].status \in Live /\ docker[h].status # "running"
       THEN p \notin UsedPorts(docker)
       ELSE p = 1
    /\ LET err == IF docker[h].status \notin Live THEN ErrNoSuchContainer
                  ELSE NilErr
       IN  /\ docker' = IF err = NilErr /\ docker[h].status # "running"
                        THEN [docker EXCEPT ![h] = StartContainer(docker[h], p)]
                        ELSE docker
           /\ last' = Result("Start", FALSE, h, NoClient, <<>>, <<>>, err)
    /\ UNCHANGED <<nextId, handles, clients>>

\* container.Terminate(ctx) (dynamodb_test.go:27, examples_test.go:21):
\* the container and its file system are removed.
Terminate(h) ==
    /\ h \in handles
    /\ LET err == IF docker[h].status \notin Live THEN ErrNoSuchContainer
                  ELSE NilErr
       IN  /\ docker' = IF err = NilErr
                        THEN [docker EXCEPT ![h] = [NoContainer EXCEPT !.status = "removed"]]
                        ELSE docker
           /\ last' = Result("Terminate", FALSE, h, NoClient, <<>>, <<>>, err)
    /\ UNCHANGED <<nextId, handles, clients>>

\* -------------------------------------------------------- ConnectionString
\* c.MappedPort(ctx, port) (called at dynamodb.go:56): the host port the
\* exposed port is mapped to; a container that is not running has none.
MappedPort(h, ctxDone) ==
    IF ctxDone THEN [port |-> 0, err |-> ErrCanceled]
    ELSE IF docker[h].status \notin Live THEN [port |-> 0, err |-> ErrNoSuchContainer]
    ELSE IF docker[h].status # "running" THEN [port |-> 0, err |-> ErrPortNotFound]
    ELSE [port |-> docker[h].hostPort, err |-> NilErr]

\* c.Host(ctx) (called at dynamodb.go:61).
Host(ctxDone, hostOK) ==
    IF ctxDone THEN [host |-> "", err |-> ErrCanceled]
    ELSE IF ~hostOK THEN [host |-> "", err |-> ErrHost]
    ELSE [host |-> hostIP, err |-> NilErr]

\* fmt.Sprintf("%s:%s", hostIP, mappedPort.Port()) (dynamodb.go:66).
Sprintf(host, p) == <<host, ":", p>>

\* ConnectionString(ctx) (dynamodb.go:55-68).
ConnectionString(h, ctxDone, hostOK) ==
    LET mp == MappedPort(h, ctxDone)
        hs == Host(ctxDone, hostOK)
    IN  IF mp.err # NilErr THEN [uri |-> <<>>, err |-> mp.err]
        ELSE IF hs.err # NilErr THEN [uri |-> <<>>, err |-> hs.err]
        ELSE [uri |-> Sprintf(hs.host, mp.port), err |-> NilErr]

CallConnectionString(h, ctxDone, hostOK) ==
    /\ h \in handles
    /\ MappedPort(h, ctxDone).err # NilErr => hostOK
    /\ LET cs == ConnectionString(h, ctxDone, hostOK)
       IN  last' = Result("ConnectionString", ctxDone, h, NoClient, <<>>, cs.uri, cs.err)
    /\ UNCHANGED <<docker, nextId, handles, clients>>

\* -------------------------------------------------------- endpoint resolver
\* ResolveEndpoint preferring an endpoint given in the parameters.
ResolveEndpointFromParams(r, params) ==
    [uri |-> [host |-> IF params.endpoint # <<>> THEN params.endpoint ELSE r.hostAndPort,
              scheme |-> "http"],
     err |-> NilErr, self |-> r]

\* DynamoDBLocalResolver.ResolveEndpoint(ctx, params)
\* (dynamodb_local_endpoint_resolver.go:15-20).  self is the resolver after the
\* call.
ResolveEndpoint(r, params) ==
    [uri |-> [host |-> r.hostAndPort, scheme |-> "http"], err |-> NilErr, self |-> r]

\* ------------------------------------------------------- GetDynamoDBClient
\* config.LoadDefaultConfig(context.Background(), ...) (dynamodb.go:76-84).
LoadDefaultConfig(cfgOK) ==
    IF cfgOK THEN [creds |-> "DUMMYIDEXAMPLE", err |-> NilErr]
    ELSE [creds |-> "", err |-> ErrConfig]

\* GetDynamoDBClient building the client without the endpoint resolver.
GetDynamoDBClientNoResolver(h, ctxDone, hostOK, cfgOK) ==
    LET cs == ConnectionString(h, FALSE, hostOK)
        cfg == LoadDefaultConfig(cfgOK)
    IN  IF cs.err # NilErr THEN [client |-> NoClient, err |-> cs.err]
        ELSE IF cfg.err # NilErr THEN [client |-> NoClient, err |-> cfg.err]
        ELSE [client |-> [hasResolver |-> FALSE, hostAndPort |-> <<>>], err |-> NilErr]

\* GetDynamoDBClient going on after ConnectionString failed.
GetDynamoDBClientIgnoresErr(h, ctxDone, hostOK, cfgOK) ==
    LET cs == ConnectionString(h, FALSE, hostOK)
        cfg == LoadDefaultConfig(cfgOK)
    IN  IF cfg.err # NilErr THEN [client |-> NoClient, err |-> cfg.err]
        ELSE [client |-> [hasResolver |-> TRUE, hostAndPort |-> cs.uri], err |-> NilErr]

\* GetDynamoDBClient(ctx) (dynamodb.go:70-87).  Both calls it makes are given
\* context.Background(), not ctx.
GetDynamoDBClient(h, ctxDone, hostOK, cfgOK) ==
    LET cs == ConnectionString(h, FALSE, hostOK)
        cfg == LoadDefaultConfig(cfgOK)
    IN  IF cs.err # NilErr THEN [client |-> NoClient, err |-> cs.err]
        ELSE IF cfg.err # NilErr THEN [client |-> NoClient, err |-> cfg.err]
        ELSE [client |-> [hasResolver |-> TRUE, hostAndPort |-> cs.uri], err |-> NilErr]

\* The clients the caller holds once it has been handed client c: it keeps at
\* most MaxClients and lets go of an older one for a new one.
Kept(c) ==
    IF Cardinality(clients \cup {c}) <= MaxClients THEN {clients \cup {c}}
    ELSE {(clients \ {old}) \cup {c} : old \in clients}

\* A call of GetDynamoDBClient.  last.arg keeps what ConnectionString gives
\* for the same container at the time of the call, and whether the default
\* configuration loaded.
CallGetDynamoDBClient(h, ctxDone, hostOK, cfgOK) ==
    /\ h \in handles
    /\ LET r == GetDynamoDBClient(h, ctxDone, hostOK, cfgOK)
           cs == ConnectionString(h, FALSE, hostOK)
       IN  /\ MappedPort(h, FALSE).err # NilErr => hostOK
           /\ cs.err # NilErr => cfgOK
           /\ clients' \in (IF r.err = NilErr THEN Kept(r.client) ELSE {clients})
           /\ last' = Result("GetDynamoDBClient", ctxDone, h, r.client,
                             [connErr |-> cs.err, connUri |-> cs.uri,
                              cfgErr |-> LoadDefaultConfig(cfgOK).err], <<>>, r.err)
    /\ UNCHANGED <<docker, nextId, handles>>

\* dynamodb.New(dynamodb.Options{}) (dynamodb_test.go:70): a client with
\* no endpoint resolver, no region and no credentials.
NewClient ==
    LET c == [hasResolver |-> FALSE, hostAndPort |-> <<>>]
    IN  /\ clients' \in Kept(c)
        /\ last' = Result("New", FALSE, Nil, c, <<>>, <<>>, NilErr)
        /\ UNCHANGED <<docker, nextId, handles>>

\* ------------------------------------------------------------------ requests
\* The endpoint parameters the SDK hands to the resolver.
Params == {[region |-> "", endpoint |-> <<>>],
           [region |-> "us-east-1",
            endpoint |-> <<"dynamodb.us-east-1.amazonaws.com", ":", 443>>]}

\* The endpoint of a request looked up when the request is made: the address
\* of a running container when there is one, whatever the client stored.
EndpointOfRunning(c, params) ==
    IF c.hasResolver
    THEN LET up == {i \in Ids : docker[i].status = "running"}
             host == IF up = {} THEN c.hostAndPort
                     ELSE LET i == CHOOSE j \in up : TRUE
                          IN  <<hostIP, ":", docker[i].hostPort>>
         IN  [uri |-> [host |-> host, scheme |-> "http"], err |-> NilErr,
              self |-> [hostAndPort |-> c.hostAndPort]]
    ELSE [uri |-> [host |-> <<>>, scheme |-> "https"], err |-> ErrMissingRegion,
          self |-> [hostAndPort |-> c.hostAndPort]]

\* The endpoint a request of client c goes to: the resolver's when the client
\* has one, the SDK's default resolution otherwise, which needs a region that
\* dynamodb.Options{} does not give.
Endpoint(c, params) ==
    IF c.hasResolver THEN ResolveEndpoint([hostAndPort |-> c.hostAndPort], params)
    ELSE [uri |-> [host |-> <<>>, scheme |-> "https"], err |-> ErrMissingRegion,
          self |-> [hostAndPort |-> c.hostAndPort]]

\* The running, ready containers listening at host:port hp.
Listening(hp) ==
    {i \in Ids : /\ docker[i].status = "running"
                 /\ docker[i].ready
                 /\ Len(hp) = 3
                 /\ hp[1] = hostIP
                 /\ hp[3] = docker[i].hostPort}

\* The SDK asks the client's resolver for the endpoint of a request with
\* parameters params (dynamodb.WithEndpointResolverV2, dynamodb.go:86).
CallResolveEndpoint(c, params) ==
    /\ c \in clients
    /\ c.hasResolver
    /\ LET ep == Endpoint(c, params)
       IN  /\ clients' = (clients \ {c}) \cup {[c EXCEPT !.hostAndPort = ep.self.hostAndPort]}
           /\ last' = Result("ResolveEndpoint", FALSE, Nil, c, params, ep, ep.err)
    /\ UNCHANGED <<docker, nextId, handles>>

\* Where a request of client c arrives: [container, err, endpoint].
Send(c, params) ==
    LET ep == Endpoint(c, params)
    IN  IF ep.err # NilErr THEN [container |-> Nil, err |-> ep.err, endpoint |-> ep]
        ELSE IF ep.uri.scheme # "http" \/ Listening(ep.uri.host) = {}
        THEN [container |-> Nil, err |-> ErrConnRefused, endpoint |-> ep]
        ELSE [container |-> CHOOSE i \in Listening(ep.uri.host) : TRUE,
              err |-> NilErr, endpoint |-> ep]

\* The client after the request: its resolver as ResolveEndpoint left it.
After(c, sent) == [c EXCEPT !.hostAndPort = sent.endpoint.self.hostAndPort]

Args(params, sent) == [endpoint |-> sent.endpoint, container |-> sent.container]

\* client.CreateTable (createTable, dynamodb_test.go:208-232).
CreateTable(c, params) ==
    /\ c \in clients
    /\ LET sent == Send(c, params)
           err == IF sent.err # NilErr THEN sent.err
                  ELSE IF docker[sent.container].table THEN ErrTableExists
                  ELSE NilErr
       IN  /\ docker' = IF err = NilErr
                        THEN [docker EXCEPT ![sent.container].table = TRUE]
                        ELSE docker
           /\ clients' = (clients \ {c}) \cup {After(c, sent)}
           /\ last' = Result("CreateTable", FALSE, Nil, c, Args(params, sent), <<>>, err)
    /\ UNCHANGED <<nextId, handles>>

\* client.ListTables (dynamodb_test.go:39, :116, :173).
ListTables(c, params) ==
    /\ c \in clients
    /\ LET sent == Send(c, params)
           names == IF sent.err = NilErr /\ docker[sent.container].table
                    THEN <<tableName>> ELSE <<>>
       IN  /\ clients' = (clients \ {c}) \cup {After(c, sent)}
           /\ last' = Result("ListTables", FALSE, Nil, c, Args(params, sent), names, sent.err)
    /\ UNCHANGED <<docker, nextId, handles>>

\* client.PutItem (addDataToTable, dynamodb_test.go:234-248).
PutItem(c, params, val) ==
    /\ c \in clients
    /\ LET sent == Send(c, params)
           err == IF sent.err # NilErr THEN sent.err
                  ELSE IF ~docker[sent.container].table THEN ErrNoTable
                  ELSE NilErr
       IN  /\ docker' = IF err = NilErr
                        THEN [docker EXCEPT ![sent.container].items = @ \cup {val}]
                        ELSE docker
           /\ clients' = (clients \ {c}) \cup {After(c, sent)}
           /\ last' = Result("PutItem", FALSE, Nil, c, Args(params, sent), val, err)
    /\ UNCHANGED <<nextId, handles>>

\* client.GetItem (queryItem, dynamodb_test.go:250-266): the stored value,
\* or no item.
GetItem(c, params, val) ==
    /\ c \in clients
    /\ LET sent == Send(c, params)
           err == IF sent.err # NilErr THEN sent.err
                  ELSE IF ~docker[sent.container].table THEN ErrNoTable
                  ELSE NilErr
           item == IF err = NilErr /\ val \in docker[sent.container].items
                   THEN <<val>> ELSE <<>>
       IN  /\ clients' = (clients \ {c}) \cup {After(c, sent)}
           /\ last' = Result("GetItem", FALSE, Nil, c, Args(params, sent), item, err)
    /\ UNCHANGED <<docker, nextId, handles>>

\* ------------------------------------------------------------ specification
Values == {testValue}

Init ==
    /\ docker = [i \in Ids |-> NoContainer]
    /\ nextId = 1
    /\ handles = {}
    /\ clients = {}
    /\ last = Result("none", FALSE, Nil, NoClient, <<>>, <<>>, NilErr)

Next ==
    \/ \E ctxDone \in BOOLEAN, opts \in LaunchOpts, envOK \in BOOLEAN, p \in Ports :
          RunContainer(ctxDone, opts, envOK, p)
    \/ \E h \in Ids : Stop(h)
    \/ \E h \in Ids, p \in Ports : Start(h, p)
    \/ \E h \in Ids : Terminate(h)
    \/ \E h \in Ids, ctxDone \in BOOLEAN, hostOK \in BOOLEAN :
          CallConnectionString(h, ctxDone, hostOK)
    \/ \E h \in Ids, ctxDone \in BOOLEAN, hostOK \in BOOLEAN, cfgOK \in BOOLEAN :
          CallGetDynamoDBClient(h, ctxDone, hostOK, cfgOK)
    \/ NewClient
    \/ \E c \in clients, params \in Params : CallResolveEndpoint(c, params)
    \/ \E c \in clients, params \in Params : CreateTable(c, params)
    \/ \E c \in clients, params \in Params : ListTables(c, params)
    \/ \E c \in clients, params \in Params, val \in Values : PutItem(c, params, val)
    \/ \E c \in clients, params \in Params, val \in Values : GetItem(c, params, val)

Spec == Init /\ [][Next]_vars

\* One RunContainer call for each sequence of options, repeats included.
InitOptions ==
    /\ docker = [i \in Ids |-> NoContainer]
    /\ nextId = 1
    /\ handles = {}
    /\ clients = {}
    /\ \E opts \in OptSeqs :
          last = Result("opts", FALSE, Nil, NoClient,
                        [opts |-> opts, reused |-> FALSE], BaseRequest, NilErr)

NextOptions ==
    \E ctxDone \in BOOLEAN, envOK \in BOOLEAN, p \in Ports :
        /\ last.op = "opts"
        /\ RunContainer(ctxDone, last.arg.opts, envOK, p)

SpecOptions == InitOptions /\ [][NextOptions]_vars


\* --------------------------------------------------------------- properties
Requests == {"CreateTable", "ListTables", "PutItem", "GetItem"}

\* The flag an option stands for.
Flag(opt) == IF opt = "WithSharedDB" THEN "-sharedDb" ELSE "-disableTelemetry"

\* How often x occurs in sequence s.
Count(x, s) == Cardinality({i \in DOMAIN s : s[i] = x})

\* C1: RunContainer returns either a handle with a nil error or a nil handle
\* with an error; the container of a returned handle is running and its
\* readiness probe has passed when the call returns, and no handle the caller
\* holds names a running container whose probe has not passed.
C1_LaunchReturnsReadyOrError ==
    /\ last.op = "RunContainer" =>
          \/ /\ last.handle # Nil
             /\ last.err = NilErr
             /\ docker[last.handle].status = "running"
             /\ docker[last.handle].ready
          \/ /\ last.handle = Nil
             /\ last.err # NilErr
    /\ \A h \in handles :
          /\ docker[h].status # "absent"
          /\ docker[h].status \in Live => docker[h].waitingFor = port
          /\ docker[h].status = "running" => docker[h].ready

\* A launch that attached to an existing, stopped container and returned it
\* running and ready.
C1_Witness ==
    /\ last.op = "RunContainer"
    /\ last.handle # Nil
    /\ last.arg.reused
    /\ docker[last.handle].status = "running"
    /\ docker[last.handle].ready
    /\ docker[last.handle].table

\* C5 as stated: for every sequence of options, the empty one included, the
\* command list is the base invocation followed by one flag per option.
C5_BaseThenFlagsForEverySequence ==
    last.op = "RunContainer" =>
        last.value.cmd = <<"-jar", "DynamoDBLocal.jar">>
                           \o [i \in 1..Len(last.arg.opts) |-> Flag(last.arg.opts[i])]

\* C5, amended: for every non-empty sequence of options the command list is
\* the base invocation followed by one flag per option in application order,
\* repeats included; with no option the command list stays empty.
C5_BaseThenFlagsInOrder ==
    last.op = "RunContainer" =>
        LET opts == last.arg.opts
        IN  IF opts = <<>> THEN last.value.cmd = <<>>
            ELSE last.value.cmd = <<"-jar", "DynamoDBLocal.jar">>
                                    \o [i \in 1..Len(opts) |-> Flag(opts[i])]

\* A launch configuration built from four options, one of them repeated.
C5_Witness ==
    /\ last.op = "RunContainer"
    /\ last.arg.opts = <<"WithTelemetryDisabled", "WithSharedDB",
                         "WithSharedDB", "WithTelemetryDisabled">>
    /\ last.value.cmd = <<"-jar", "DynamoDBLocal.jar", "-disableTelemetry",
                          "-sharedDb", "-sharedDb", "-disableTelemetry">>

\* C6: every reordering of the applied options yields the same flags (each as
\* often), the same container name and the same reuse flag, after the same
\* base invocation; and a launch with both options that returns a handle
\* returns a running, ready container.
C6_OptionsCommute ==
    last.op = "RunContainer" =>
        LET opts == last.arg.opts
            req == last.value
        IN  /\ \A q \in [1..Len(opts) -> Options] :
                  (\A o \in Options : Count(o, q) = Count(o, opts)) =>
                      LET r == ApplyOpts(q, BaseRequest)
                      IN  /\ Range(r.cmd) = Range(req.cmd)
                          /\ \A f \in Range(req.cmd) : Count(f, r.cmd) = Count(f, req.cmd)
                          /\ Len(r.cmd) = Len(req.cmd)
                          /\ \A i \in 1..2 : i <= Len(req.cmd) => r.cmd[i] = req.cmd[i]
                          /\ r.name = req.name
                          /\ r.reuse = req.reuse
            /\ (Options \subseteq Range(opts) /\ last.err = NilErr) =>
                  /\ last.handle # Nil
                  /\ docker[last.handle].status = "running"
                  /\ docker[last.handle].ready
                  /\ docker[last.handle].cmd = req.cmd

\* A launch with WithSharedDB then WithTelemetryDisabled returned a running,
\* ready container.
C6_Witness ==
    /\ last.op = "RunContainer"
    /\ last.arg.opts = <<"WithSharedDB", "WithTelemetryDisabled">>
    /\ last.err = NilErr
    /\ docker[last.handle].status = "running"
    /\ docker[last.handle].ready
    /\ docker[last.handle].cmd = <<"-jar", "DynamoDBLocal.jar", "-sharedDb", "-disableTelemetry">>

\* Container c was launched with WithSharedDB: it has the fixed name.
Shared(c) == docker[c].name = containerName

\* C2: the data of a container launched with WithSharedDB is never lost
\* while the container exists, whatever is called, Stop and Start included:
\* a table stays, every stored item stays; and what a client lists and reads
\* back is what the container holds.
C2_SharedDataSurvivesRestart ==
    /\ [][\A c \in Ids :
             (Shared(c) /\ docker[c].status \in Live /\ docker'[c].status \in Live) =>
                 /\ docker[c].table => docker'[c].table
                 /\ docker[c].items \subseteq docker'[c].items
                 /\ last'.op \in {"Stop", "Start"} =>
                       /\ docker'[c].table = docker[c].table
                       /\ docker'[c].items = docker[c].items]_vars
    /\ [](last.op = "ListTables" /\ last.err = NilErr =>
             last.value = IF docker[last.arg.container].table THEN <<tableName>> ELSE <<>>)
    /\ [](last.op = "GetItem" /\ last.err = NilErr =>
             last.value = IF testValue \in docker[last.arg.container].items
                          THEN <<testValue>> ELSE <<>>)

\* A container launched with WithSharedDB was started again and still holds
\* its table and its item.
C2_Witness ==
    /\ last.op = "Start"
    /\ last.err = NilErr
    /\ Shared(last.handle)
    /\ docker[last.handle].status = "running"
    /\ docker[last.handle].table
    /\ testValue \in docker[last.handle].items

\* C3 as stated: a container launched without WithSharedDB holds no data
\* when it is started again after a stop.
C3_RestartWithoutSharedDBIsEmpty ==
    [][\A c \in Ids :
          (/\ ~Shared(c)
           /\ "-sharedDb" \notin Range(docker[c].cmd)
           /\ docker[c].status = "exited"
           /\ docker'[c].status = "running") =>
              /\ ~docker'[c].table
              /\ docker'[c].items = {}]_vars

\* A live container launched with WithSharedDB.
SharedLive == {c \in Ids : docker[c].status \in Live /\ "-sharedDb" \in Range(docker[c].cmd)}

\* C4: a RunContainer with WithSharedDB that returns a handle returns the
\* existing container launched with WithSharedDB when there is one, with its
\* data as it was and without creating a container; when there is none it
\* creates a container that holds no data; and Terminate removes the
\* container with its data.
C4_SharedLaunchAttaches ==
    /\ [][(/\ last'.op = "RunContainer"
           /\ last'.err = NilErr
           /\ "WithSharedDB" \in Range(last'.arg.opts)) =>
              IF SharedLive # {}
              THEN /\ last'.handle \in SharedLive
                   /\ last'.arg.reused
                   /\ nextId' = nextId
                   /\ docker'[last'.handle].table = docker[last'.handle].table
                   /\ docker'[last'.handle].items = docker[last'.handle].items
                   /\ docker'[last'.handle].cmd = docker[last'.handle].cmd
              ELSE /\ last'.handle = nextId
                   /\ nextId' = nextId + 1
                   /\ ~last'.arg.reused
                   /\ ~docker'[last'.handle].table
                   /\ docker'[last'.handle].items = {}]_vars
    /\ [][(last'.op = "Terminate" /\ last'.err = NilErr) =>
              /\ docker'[last'.handle].status = "removed"
              /\ ~docker'[last'.handle].table
              /\ docker'[last'.handle].items = {}]_vars

\* A second launch with WithSharedDB returned the existing container, which
\* holds the table and the item written before.
C4_Witness ==
    /\ last.op = "RunContainer"
    /\ last.err = NilErr
    /\ last.arg.reused
    /\ "WithSharedDB" \in Range(last.arg.opts)
    /\ nextId = 2
    /\ docker[last.handle].table
    /\ testValue \in docker[last.handle].items

\* C7 as stated: whenever ConnectionString succeeds, GetDynamoDBClient returns
\* a client bound to that host:port.
C7_ClientWheneverConnectionStringSucceeds ==
    (last.op = "GetDynamoDBClient" /\ last.arg.connErr = NilErr) =>
        /\ last.client = [hasResolver |-> TRUE, hostAndPort |-> last.arg.connUri]
        /\ last.err = NilErr

\* C7, amended: on a container that is not running ConnectionString returns
\* the empty string and an error; GetDynamoDBClient returns no client and
\* ConnectionString's error itself when either lookup fails, no client and
\* the configuration's error when the default configuration fails to load,
\* and otherwise a client bound to exactly ConnectionString's host:port.
C7_ClientOrPropagatedError ==
    /\ last.op = "ConnectionString" =>
          /\ docker[last.handle].status # "running" =>
                last.value = <<>> /\ last.err # NilErr
          /\ last.err # NilErr => last.value = <<>>
          /\ last.err = NilErr =>
                last.value = <<hostIP, ":", docker[last.handle].hostPort>>
    /\ last.op = "GetDynamoDBClient" =>
          /\ docker[last.handle].status # "running" =>
                last.arg.connErr \in {ErrPortNotFound, ErrNoSuchContainer}
          /\ last.arg.connErr # NilErr =>
                last.client = NoClient /\ last.err = last.arg.connErr
          /\ (last.arg.connErr = NilErr /\ last.arg.cfgErr # NilErr) =>
                last.client = NoClient /\ last.err = last.arg.cfgErr
          /\ (last.arg.connErr = NilErr /\ last.arg.cfgErr = NilErr) =>
                /\ last.err = NilErr
                /\ last.client = [hasResolver |-> TRUE, hostAndPort |-> last.arg.connUri]
                /\ last.arg.connUri = <<hostIP, ":", docker[last.handle].hostPort>>
                /\ last.client \in clients

\* GetDynamoDBClient on a stopped container returned no client and
\* ConnectionString's error.
C7_Witness ==
    /\ last.op = "GetDynamoDBClient"
    /\ docker[last.handle].status = "exited"
    /\ last.client = NoClient
    /\ last.err = ErrPortNotFound

\* C8: whatever the request parameters, ResolveEndpoint returns the endpoint
\* whose host is the resolver's stored host:port and whose scheme is http,
\* with a nil error, and leaves the stored host:port as it was.
C8_ResolveEndpointFixed ==
    /\ [](last.op = "ResolveEndpoint" =>
             last.value = [uri |-> [host |-> last.client.hostAndPort, scheme |-> "http"],
                           err |-> NilErr,
                           self |-> [hostAndPort |-> last.client.hostAndPort]])
    /\ [](last.op \in Requests /\ last.client.hasResolver =>
             /\ last.arg.endpoint.uri = [host |-> last.client.hostAndPort, scheme |-> "http"]
             /\ last.arg.endpoint.err = NilErr)
    /\ [][last'.op \in Requests \cup {"ResolveEndpoint"} =>
             clients' = clients /\ last'.client \in clients']_vars

\* ResolveEndpoint was called with a region and an endpoint in the
\* parameters and returned the stored host:port.
C8_Witness ==
    /\ last.op = "ResolveEndpoint"
    /\ last.arg.region = "us-east-1"
    /\ last.arg.endpoint # <<>>
    /\ last.value.uri.host = last.client.hostAndPort
    /\ Len(last.client.hostAndPort) = 3

\* C9: a request through a client built without the resolver fails and
\* reaches no container, whatever is running; a request through the client
\* GetDynamoDBClient returns reaches the container the client was asked for,
\* and a CreateTable that reaches a container without the table succeeds.
C9_OnlyResolverClientsReachContainer ==
    /\ [](last.op \in Requests /\ ~last.client.hasResolver =>
             last.err # NilErr /\ last.arg.container = Nil)
    /\ [](\A c \in clients, params \in Params :
             ~c.hasResolver => Send(c, params).container = Nil /\ Send(c, params).err # NilErr)
    /\ [](last.op = "GetDynamoDBClient" /\ last.err = NilErr =>
             \A params \in Params :
                 /\ Send(last.client, params).err = NilErr
                 /\ Send(last.client, params).container = last.handle)
    /\ [][(/\ last'.op = "CreateTable"
           /\ last'.arg.container # Nil
           /\ ~docker[last'.arg.container].table) =>
              /\ last'.err = NilErr
              /\ docker'[last'.arg.container].table]_vars

\* A CreateTable through a client without the resolver failed while a
\* container was running and ready.
C9_Witness ==
    /\ last.op = "CreateTable"
    /\ ~last.client.hasResolver
    /\ last.err # NilErr
    /\ \E c \in Ids : docker[c].status = "running" /\ docker[c].ready /\ ~docker[c].table

\* C10 as stated: a call of RunContainer, ConnectionString or
\* GetDynamoDBClient whose context is cancelled returns the cancellation
\* error and nothing else.
C10_CancelledContextAborts ==
    (last.op \in {"RunContainer", "ConnectionString", "GetDynamoDBClient"} /\ last.ctxDone) =>
        /\ last.err = ErrCanceled
        /\ last.client = NoClient
        /\ last.op = "RunContainer" => last.handle = Nil

\* The host:port container h is reachable at.
Address(h) == <<hostIP, ":", docker[h].hostPort>>

\* The running containers.
Running == {i \in Ids : docker[i].status = "running"}

\* C11: the endpoint of a client is the host:port it was built with: no Stop,
\* Start or Terminate changes any client, every request of a client goes to
\* the stored host:port and arrives only at a container running at exactly
\* that address, so a client whose stored port is no longer the mapped port
\* of a running container reaches none; ConnectionString returns the
\* current mapping and a client GetDynamoDBClient has just returned targets
\* the current address of its container.
C11_ClientEndpointFixedAtConstruction ==
    /\ [][last'.op \in {"Stop", "Start", "Terminate"} => clients' = clients]_vars
    /\ [](\A c \in clients, params \in Params :
             c.hasResolver =>
                LET sent == Send(c, params)
                IN  /\ sent.endpoint.uri.host = c.hostAndPort
                    /\ After(c, sent) = c
                    /\ sent.container # Nil =>
                          /\ sent.container \in Running
                          /\ Address(sent.container) = c.hostAndPort
                    /\ (\A i \in Running : Address(i) # c.hostAndPort) =>
                          /\ sent.container = Nil
                          /\ sent.err = ErrConnRefused)
    /\ [](last.op \in Requests /\ last.client.hasResolver =>
             /\ last.arg.endpoint.uri.host = last.client.hostAndPort
             /\ last.arg.container # Nil =>
                   Address(last.arg.container) = last.client.hostAndPort
             /\ (\A i \in Running : Address(i) # last.client.hostAndPort) =>
                   last.arg.container = Nil /\ last.err = ErrConnRefused)
    /\ [](last.op = "ConnectionString" /\ last.err = NilErr =>
             /\ last.handle \in Running
             /\ last.value = Address(last.handle))
    /\ [](last.op = "GetDynamoDBClient" /\ last.err = NilErr =>
             /\ last.handle \in Running
             /\ last.client.hostAndPort = Address(last.handle)
             /\ last.client \in clients)

\* The only container ever launched was stopped and started again and now
\* has another mapped port than the one the client was built with: a request
\* of that client went to the old host:port and was refused.
C11_Witness ==
    /\ nextId = 2
    /\ 1 \in Running
    /\ last.op = "ListTables"
    /\ last.client.hasResolver
    /\ last.client \in clients
    /\ Len(last.client.hostAndPort) = 3
    /\ last.client.hostAndPort[3] \in Ports
    /\ last.client.hostAndPort # Address(1)
    /\ last.arg.endpoint.uri.host = last.client.hostAndPort
    /\ last.err = ErrConnRefused

=============================================================================
